---- MODULE Spec2Model ----
(***************************************************************************)
(* A model of two KiBot outputs:                                           *)
(*   kibot/out_pcb_print.py      PCB_PrintOptions (plot, colorize, merge)  *)
(*   kibot/out_blender_export.py Blender_ExportOptions (config, run)       *)
(*                                                                         *)
(* Conventions                                                             *)
(*   - A color string "#rrggbb" or "#rrggbbaa" is the sequence of the      *)
(*     values of its hexadecimal digits (the leading # is left out); the   *)
(*     empty string is <<>>.                                               *)
(*   - A color component, the float c/255, is kept as the integer 3*c,     *)
(*     i.e. in units of 1/765, so that the average of three components is  *)
(*     an integer too.                                                     *)
(*   - A file is named by the string the code builds for it.              *)
(***************************************************************************)
EXTENDS Integers, Sequences, FiniteSets, TLC

(***************************************************************************)
(* Bounds of the model                                                     *)
(***************************************************************************)
MaxPlots == 3       \* the layers of a configuration, over all its pages
MaxPdfPages == 2    \* the pages of a PDF given to colorize_pdf
MaxOps == 3         \* the operations of such a PDF, over all its pages
MaxLights == 2      \* the lights of a blender_export configuration
MaxOutputs == 2     \* the outputs of a blender_export configuration
MaxBoard == 2       \* the width and the height of the board, in mm
MaxConfigPages == 2 \* the pages of a pcb_print configuration that may lack options

Range(s) == {s[i] : i \in 1..Len(s)}

SeqsUpTo(S, lo, hi) == UNION {[1..k -> S] : k \in lo..hi}

(***************************************************************************)
(* Colors                                                                  *)
(***************************************************************************)
Black == <<0, 0, 0, 0, 0, 0>>               \* "#000000"
BlackAlpha == <<0, 0, 0, 0, 0, 0, 8, 0>>    \* "#00000080"
Copper == <<12, 8, 3, 4, 3, 4>>             \* "#C83434"
FrameColor == <<8, 4, 0, 0, 0, 0>>          \* "#840000"

\* hex_to_rgb: ((r, g, b), alpha), each component in units of 1/765
hex_to_rgb(value) ==
    LET byte(i) == 16 * value[i] + value[i + 1]
        rgb == <<3 * byte(1), 3 * byte(3), 3 * byte(5)>>
        alpha == IF Len(value) = 8 THEN 3 * byte(7) ELSE 765
    IN  <<rgb, alpha>>

\* to_gray taking the red for the average
to_gray_red(color) == <<color[1], color[1], color[1]>>

to_gray(color) ==
    LET avg == (color[1] + color[2] + color[3]) \div 3
    IN  <<avg, avg, avg>>

(***************************************************************************)
(* The configuration of pcb_print                                          *)
(***************************************************************************)
pcb_basename == "board"

\* The color theme: layer_id2color and pcb_frame
layer_id2color == [la \in {"F_Cu"} |-> Copper]
pcb_frame == FrameColor

\* The layers a page is made of: one that takes its color from the theme and
\* one the theme does not know
LayerChoices ==
    { [suffix |-> "F_Cu", color |-> <<>>],
      [suffix |-> "B_Cu", color |-> <<>>] }

Scalings == {0, 2}

SheetColors == {<<>>, Black, BlackAlpha}

\* The pages with at most k layers and the given sheet_reference_color
PageChoices(k, sheet) ==
    [ layers : SeqsUpTo(LayerChoices, 1, k),
      monochrome : BOOLEAN,
      scaling : Scalings,
      sheet_reference_color : {sheet} ]

\* The lists of pages with at most k layers in all
RECURSIVE PageLists(_, _)
PageLists(k, sheet) ==
    {<<>>} \cup
    UNION { { <<p>> \o rest : rest \in PageLists(k - Len(p.layers), sheet) } :
            p \in PageChoices(k, sheet) }

VARIABLES
    p_tree,                 \* the `pages` option as the configuration file gives it
    pages,                  \* self.pages, a list of PagesOptions
    plot_sheet_reference,   \* self.plot_sheet_reference
    ppc,                    \* where pcb_print is
    n,                      \* generate_output: the index of the current page
    li,                     \* generate_output: the index of the current layer
    po,                     \* the plot options of the plot controller
    plotOpen,               \* the plot controller has a plot file open
    tempExists,             \* the directory made by mkdtemp exists
    temp,                   \* the files of the temporal directory
    filelist,               \* generate_output: filelist
    pgs,                    \* generate_output: pages (assembly files)
    plotted,                \* the calls of pc.PlotLayer, in order
    colorized,              \* the calls of colorize_pdf, in order
    merged,                 \* the calls of merge_pdf, in order
    out                     \* the output file: <<>> or <<list of pages>>

pvars == <<p_tree, pages, plot_sheet_reference, ppc, n, li, po, plotOpen, tempExists,
           temp, filelist, pgs, plotted, colorized, merged, out>>

VARIABLES
    cpc,                    \* where colorize_pdf is
    c_source,               \* source: the pages of in_file, each a list of operations
    c_color,                \* color
    c_page,                 \* the index of the page of the loop
    c_i,                    \* i
    c_ops,                  \* content.operations
    c_output,               \* output: the pages added to the writer
    c_file                  \* out_file: <<>> or <<list of pages>>

cvars == <<cpc, c_source, c_color, c_page, c_i, c_ops, c_output, c_file>>

VARIABLES
    bpc,                    \* where blender_export is
    b_tree,                 \* the options as the configuration file gives them
    b_board,                \* the bounding box of the board, in mm
    b_pcb3d,                \* self.pcb3d
    b_outputs,              \* self.outputs
    b_pcb_import,           \* self.pcb_import
    b_light,                \* self.light
    b_camera,               \* self.camera
    b_expand_ext,           \* self._expand_ext
    b_targets,              \* what get_targets returned last
    b_source,               \* the output that makes the PCB3D file
    b_scene_file,           \* the temporal JSON file of run
    b_blender               \* the invocations of Blender by run_command

bvars == <<bpc, b_tree, b_board, b_pcb3d, b_outputs, b_pcb_import, b_light,
           b_camera, b_expand_ext, b_targets, b_source, b_scene_file, b_blender>>

vars == <<pvars, cvars, bvars>>

NoFiles == [f \in {} |-> 0]

Put(dir, name, content) ==
    [f \in DOMAIN dir \cup {name} |-> IF f = name THEN content ELSE dir[f]]

\* The plot options as the board holds them when the plot controller is made:
\* the values generate_output has to override
BoardPlotOptions == [frameRef |-> TRUE, scale |-> 1, autoScale |-> TRUE]

(***************************************************************************)
(* The configuration of blender_export                                     *)
(*                                                                         *)
(* An option that may be left out is [kind, val]: kind is "class" while    *)
(* the attribute still holds the class of its documentation (the option    *)
(* was not given), "dict" for one object and "list" for a list of them.    *)
(* A length is an integer number of 10 micrometres, so that the board of   *)
(* w mm is 100*w wide and 3.33 times a length is an integer.  A position   *)
(* is [isstr, num, str]: the number num, or the string str to evaluate.    *)
(***************************************************************************)
PCB2BlenderDefaults ==
    [components |-> TRUE, cut_boards |-> TRUE, texture_dpi |-> 1016,
     center |-> TRUE, enhance_materials |-> TRUE, merge_materials |-> TRUE,
     solder_joints |-> "SMART", stack_boards |-> TRUE]

PCB2BlenderChoices ==
    [components : BOOLEAN, cut_boards : BOOLEAN, texture_dpi : {508, 1016},
     center : BOOLEAN, enhance_materials : BOOLEAN, merge_materials : BOOLEAN,
     solder_joints : {"NONE", "SMART", "ALL"}, stack_boards : BOOLEAN]

\* output: the pattern up to its %x, the other expansions done
OutputChoices == [type : {"render", "blender", "stl"}, output : {"board-3D_blender_top."}]

Number(v) == [isstr |-> FALSE, num |-> v, str |-> ""]
String(v) == [isstr |-> TRUE, num |-> 0, str |-> v]

PosChoices == {Number(700), String("width"), String("height"), String("size")}

LightChoices ==
    [name : {"", "spot"}, pos_x : PosChoices, pos_y : {String("height")},
     pos_z : {Number(300)}]

CameraChoices ==
    [name : {""}, pos_x : {Number(0)}, pos_y : {String("size")},
     pos_z : {String("height")}]

NotGiven == [kind |-> "class", val |-> <<>>]
OneOf(S) == [kind : {"dict"}, val : SeqsUpTo(S, 1, 1)]
ListOf(S, k) == [kind : {"list"}, val : SeqsUpTo(S, 1, k)]

BlenderIdle ==
    /\ bpc = "idle"
    /\ b_tree = <<>>
    /\ b_board = <<1, 1>>
    /\ b_pcb3d = ""
    /\ b_outputs = NotGiven
    /\ b_pcb_import = NotGiven
    /\ b_light = NotGiven
    /\ b_camera = NotGiven
    /\ b_expand_ext = ""
    /\ b_targets = <<>>
    /\ b_source = [done |-> FALSE, file |-> FALSE, runs |-> 0]
    /\ b_scene_file = <<>>
    /\ b_blender = <<>>

\* colorize_pdf is not followed on its own while pcb_print runs
ColorizeIdle ==
    /\ cpc = "idle"
    /\ c_source = <<>>
    /\ c_color = <<0, 0, 0>>
    /\ c_page = 0
    /\ c_i = 0
    /\ c_ops = <<>>
    /\ c_output = <<>>
    /\ c_file = <<>>

\* A page as the configuration file gives it: its `layers` option is a list
GivenPage(p) == [p EXCEPT !.layers = [kind |-> "list", val |-> @]]

\* A `pages` option that is a list of pages
GivenPages(ps) == [kind |-> "list", val |-> [i \in 1..Len(ps) |-> GivenPage(ps[i])]]

\* The complete configurations of pcb_print
PrintInit ==
    /\ plot_sheet_reference \in BOOLEAN
    /\ \E sheet \in SheetColors :
          \E ps \in PageLists(MaxPlots, sheet) \ {<<>>} : p_tree = GivenPages(ps)
    /\ pages = <<>>
    /\ ppc = "new"
    /\ n = 0
    /\ li = 1
    /\ po = BoardPlotOptions
    /\ plotOpen = FALSE
    /\ tempExists = FALSE
    /\ temp = NoFiles
    /\ filelist = <<>>
    /\ pgs = <<>>
    /\ plotted = <<>>
    /\ colorized = <<>>
    /\ merged = <<>>
    /\ out = <<>>
    /\ ColorizeIdle
    /\ BlenderIdle

\* PCB_PrintOptions.config: assign a color if none was defined
AssignColor(la) ==
    IF la.color = <<>>
    THEN [la EXCEPT !.color = IF la.suffix \in DOMAIN layer_id2color
                              THEN layer_id2color[la.suffix]
                              ELSE Black]
    ELSE la

\* PagesOptions.config accepting a page whose layers were not given
MissingLayers_never(p) == FALSE

\* PagesOptions.config: isinstance(self.layers, type)
MissingLayers(p) == p.layers.kind = "class"

\* PCB_PrintOptions.config: isinstance(self.pages, type)
MissingPages(tree) == tree.kind = "class"

\* PCB_PrintOptions.config: super().config configures every page given, then
\* the pages are looked for and the layers get their colors
PrintConfig ==
    /\ ppc = "new"
    /\ IF \/ \E i \in 1..Len(p_tree.val) : MissingLayers(p_tree.val[i])
          \/ MissingPages(p_tree)
       THEN /\ ppc' = "rejected"
            /\ UNCHANGED pages
       ELSE /\ pages' = [i \in 1..Len(p_tree.val) |->
                           [p_tree.val[i] EXCEPT !.layers =
                              [j \in 1..Len(p_tree.val[i].layers.val) |->
                                  AssignColor(p_tree.val[i].layers.val[j])]]]
            /\ ppc' = "configured"
    /\ UNCHANGED <<p_tree, plot_sheet_reference, n, li, po, plotOpen, tempExists,
                   temp, filelist, pgs, plotted, colorized, merged, out>>
    /\ UNCHANGED <<cvars, bvars>>

\* generate_output up to the loop on the pages
GenStart ==
    /\ ppc = "configured"
    /\ tempExists' = TRUE
    /\ temp' = NoFiles
    /\ po' = [po EXCEPT !.autoScale = FALSE]
    /\ pgs' = <<>>
    /\ n' = 0
    /\ ppc' = IF Len(pages) = 0 THEN "join" ELSE "page"
    /\ UNCHANGED <<p_tree, pages, plot_sheet_reference, li, plotOpen, filelist,
                   plotted, colorized, merged, out>>
    /\ UNCHANGED <<cvars, bvars>>

\* The head of the loop without po.SetPlotFrameRef(False)
PageSetup_frame_ref_kept ==
    /\ ppc = "page"
    /\ LET p == pages[n + 1] IN
         /\ po' = [po EXCEPT !.scale = p.scaling]
         /\ li' = 1
         /\ ppc' = IF Len(p.layers) = 0 THEN "frame" ELSE "plot"
    /\ UNCHANGED <<p_tree, pages, plot_sheet_reference, n, plotOpen, tempExists, temp,
                   filelist, pgs, plotted, colorized, merged, out>>
    /\ UNCHANGED <<cvars, bvars>>

\* The head of the loop on the pages: the options of page n
PageSetup ==
    /\ ppc = "page"
    /\ LET p == pages[n + 1] IN
         /\ po' = [po EXCEPT !.frameRef = FALSE, !.scale = p.scaling]
         /\ li' = 1
         /\ ppc' = IF Len(p.layers) = 0 THEN "frame" ELSE "plot"
    /\ UNCHANGED <<p_tree, pages, plot_sheet_reference, n, plotOpen, tempExists, temp,
                   filelist, pgs, plotted, colorized, merged, out>>
    /\ UNCHANGED <<cvars, bvars>>

PlotFile(suffix) == pcb_basename \o "-" \o suffix \o ".pdf"

\* What pc.PlotLayer draws, in black: the layer, under the given plot options.
\* A plotted file holds one page, and a page is the sequence of its drawings
\* from the bottom to the top.
Plot(layer, page, opts) ==
    [layer |-> layer, page |-> page, frameRef |-> opts.frameRef,
     scale |-> opts.scale, autoScale |-> opts.autoScale, color |-> <<0, 0, 0>>]

\* 1) Plot one layer of the page to its own PDF file
PlotLayer ==
    /\ ppc = "plot"
    /\ LET p == pages[n + 1]
           la == p.layers[li]
       IN  /\ temp' = Put(temp, PlotFile(la.suffix), <<Plot(la.suffix, n, po)>>)
           /\ plotted' = Append(plotted, Plot(la.suffix, n, po))
           /\ plotOpen' = TRUE
           /\ li' = li + 1
           /\ ppc' = IF li = Len(p.layers) THEN "frame" ELSE "plot"
    /\ UNCHANGED <<p_tree, pages, plot_sheet_reference, n, po, tempExists, filelist,
                   pgs, colorized, merged, out>>
    /\ UNCHANGED <<cvars, bvars>>

\* 2) Plot the frame using an empty layer and 1.0 scale
PlotFrame ==
    /\ ppc = "frame"
    /\ IF plot_sheet_reference
       THEN LET fpo == [po EXCEPT !.frameRef = TRUE, !.scale = 1]
                drawn == Plot("frame", n, fpo)
            IN  /\ po' = fpo
                /\ temp' = Put(temp, PlotFile("frame"), <<drawn>>)
                /\ plotted' = Append(plotted, drawn)
                /\ plotOpen' = TRUE
       ELSE UNCHANGED <<po, temp, plotted, plotOpen>>
    /\ ppc' = "close"
    /\ UNCHANGED <<p_tree, pages, plot_sheet_reference, n, li, tempExists, filelist,
                   pgs, colorized, merged, out>>
    /\ UNCHANGED <<cvars, bvars>>

\* pc.ClosePlot() and the empty filelist of step 3
ClosePlot ==
    /\ ppc = "close"
    /\ plotOpen' = FALSE
    /\ filelist' = <<>>
    /\ li' = 1
    /\ ppc' = IF Len(pages[n + 1].layers) = 0 THEN "colorframe" ELSE "colorize"
    /\ UNCHANGED <<p_tree, pages, plot_sheet_reference, n, po, tempExists, temp,
                   pgs, plotted, colorized, merged, out>>
    /\ UNCHANGED <<cvars, bvars>>

ColoredFile(suffix) == pcb_basename \o "-" \o suffix \o "-colored.pdf"

\* colorize_layer: the color handed to colorize_pdf
LayerColor(color, monochrome) ==
    LET rgb == hex_to_rgb(color)[1]
    IN  IF ~monochrome THEN rgb ELSE to_gray(rgb)

\* colorize_layer appending the plotted file whatever the color
LayerFile_plotted(suffix, color) == PlotFile(suffix)

\* colorize_layer: the file appended to filelist
LayerFile(suffix, color) ==
    IF color # Black THEN ColoredFile(suffix) ELSE PlotFile(suffix)

\* colorize_pdf seen from generate_output: every page of the input, its black
\* drawings given the color (ColorizeOperation follows the content stream)
ColorizePage(page, color) ==
    [i \in 1..Len(page) |->
        IF page[i].color = <<0, 0, 0>> THEN [page[i] EXCEPT !.color = color]
        ELSE page[i]]

\* colorize_layer(suffix, color, monochrome, filelist, temp_dir); ok is false
\* when reading in_file or writing out_file fails (IOError, ValueError, EOFError)
colorize_layer(suffix, color, monochrome, ok, next) ==
    LET in_file == PlotFile(suffix)
        out_file == ColoredFile(suffix)
        rgb == LayerColor(color, monochrome)
    IN  IF color # Black
        THEN /\ colorized' = Append(colorized,
                    [page |-> n, suffix |-> suffix, hex |-> color,
                     in_file |-> in_file, out_file |-> out_file, color |-> rgb])
             /\ IF ok /\ in_file \in DOMAIN temp
                THEN /\ temp' = Put(temp, out_file, ColorizePage(temp[in_file], rgb))
                     /\ filelist' = Append(filelist, LayerFile(suffix, color))
                     /\ ppc' = next
                ELSE /\ ppc' = "raised"
                     /\ UNCHANGED <<temp, filelist>>
        ELSE /\ filelist' = Append(filelist, LayerFile(suffix, color))
             /\ ppc' = next
             /\ UNCHANGED <<temp, colorized>>

\* 3) Apply the colors to the layer PDFs
ColorizeLayer ==
    /\ ppc = "colorize"
    /\ LET p == pages[n + 1]
           la == p.layers[li]
       IN  \E ok \in BOOLEAN :
             colorize_layer(la.suffix, la.color, p.monochrome, ok,
                            IF li = Len(p.layers) THEN "colorframe" ELSE "colorize")
    /\ li' = li + 1
    /\ UNCHANGED <<p_tree, pages, plot_sheet_reference, n, po, plotOpen, tempExists,
                   pgs, plotted, merged, out>>
    /\ UNCHANGED <<cvars, bvars>>

\* 4) Apply color to the frame
ColorizeFrame ==
    /\ ppc = "colorframe"
    /\ IF plot_sheet_reference
       THEN LET p == pages[n + 1]
                color == IF p.sheet_reference_color # <<>>
                         THEN p.sheet_reference_color ELSE pcb_frame
            IN  \E ok \in BOOLEAN :
                  colorize_layer("frame", color, p.monochrome, ok, "merge")
       ELSE /\ ppc' = "merge"
            /\ UNCHANGED <<temp, filelist, colorized>>
    /\ UNCHANGED <<p_tree, pages, plot_sheet_reference, n, li, po, plotOpen, tempExists,
                   pgs, plotted, merged, out>>
    /\ UNCHANGED <<cvars, bvars>>

\* the assembly file named without the number of the page
AssemblyFile_unnumbered(k) == pcb_basename \o "-assembly.pdf"

AssemblyFile(k) == pcb_basename \o "-" \o ToString(k) \o ".pdf"

\* merge_pdf: the first file is the base, every later one is merged onto it
RECURSIVE MergePages(_, _)
MergePages(dir, input_files) ==
    IF Len(input_files) = 1 THEN dir[input_files[1]]
    ELSE MergePages(dir, SubSeq(input_files, 1, Len(input_files) - 1))
             \o dir[input_files[Len(input_files)]]

\* 5) Stack all layers in one file; the end of the loop on the pages
MergePdf ==
    /\ ppc = "merge"
    /\ merged' = Append(merged, [page |-> n, input_files |-> filelist,
                                 output_file |-> AssemblyFile(n)])
    /\ \E ok \in BOOLEAN :
         \* (an empty list leaves merged_page unbound: an error as well)
         IF ok /\ filelist # <<>> /\ Range(filelist) \subseteq DOMAIN temp
         THEN /\ temp' = Put(temp, AssemblyFile(n), MergePages(temp, filelist))
              /\ pgs' = Append(pgs, AssemblyFile(n))
              /\ n' = n + 1
              /\ ppc' = IF n + 1 < Len(pages) THEN "page" ELSE "join"
         ELSE /\ ppc' = "raised"
              /\ UNCHANGED <<temp, pgs, n>>
    /\ UNCHANGED <<p_tree, pages, plot_sheet_reference, li, po, plotOpen, tempExists,
                   filelist, plotted, colorized, out>>
    /\ UNCHANGED <<cvars, bvars>>

\* create_pdf_from_pages: the first page of every input file, in order
PdfFromPages(dir, input_files) ==
    [i \in 1..Len(input_files) |-> dir[input_files[i]]]

\* Join all pages in one file
CreatePdf ==
    /\ ppc = "join"
    /\ \E ok \in BOOLEAN :
         IF ok /\ Range(pgs) \subseteq DOMAIN temp
         THEN /\ out' = <<PdfFromPages(temp, pgs)>>
              /\ ppc' = "rmtree"
         ELSE /\ ppc' = "raised"
              /\ UNCHANGED out
    /\ UNCHANGED <<p_tree, pages, plot_sheet_reference, n, li, po, plotOpen, tempExists,
                   temp, filelist, pgs, plotted, colorized, merged>>
    /\ UNCHANGED <<cvars, bvars>>

\* Remove the temporal files; generate_output returns
Rmtree ==
    /\ ppc = "rmtree"
    /\ tempExists' = FALSE
    /\ temp' = NoFiles
    /\ ppc' = "done"
    /\ UNCHANGED <<p_tree, pages, plot_sheet_reference, n, li, po, plotOpen, filelist,
                   pgs, plotted, colorized, merged, out>>
    /\ UNCHANGED <<cvars, bvars>>

PrintNext ==
    \/ PrintConfig
    \/ GenStart
    \/ PageSetup
    \/ PlotLayer
    \/ PlotFrame
    \/ ClosePlot
    \/ ColorizeLayer
    \/ ColorizeFrame
    \/ MergePdf
    \/ CreatePdf
    \/ Rmtree

SpecPrint == PrintInit /\ [][PrintNext]_vars

(***************************************************************************)
(* pcb_print: the properties                                               *)
(***************************************************************************)
Returned == ppc = "done"
Raised == ppc = "raised"

\* The color of the frame of page p
SheetColor(p) ==
    IF p.sheet_reference_color # <<>> THEN p.sheet_reference_color ELSE pcb_frame

\* The layers of page p as they are stacked, the frame included
Stack(p) ==
    [j \in 1..Len(p.layers) |-> [suffix |-> p.layers[j].suffix, color |-> p.layers[j].color]]
    \o (IF plot_sheet_reference
        THEN <<[suffix |-> "frame", color |-> SheetColor(p)]>> ELSE <<>>)

\* C1: every execution of generate_output removes the directory it made with
\* mkdtemp before the call ends, whether it returns or raises
\* KiPlotConfigurationError.
C1_TempRemovedOnEveryExit ==
    (Returned \/ Raised) => ~tempExists

\* C3: the PDF written has one page per entry of `pages`, in that order; page
\* k is what merge_pdf wrote to <basename>-k.pdf while page k was processed,
\* and every drawing of it was plotted for page k, from the layers of page k.
C3_OnePagePerConfiguredPage ==
    out # <<>> =>
        /\ Len(out[1]) = Len(pages)
        /\ Len(merged) = Len(pages)
        /\ \A k \in 1..Len(pages) :
            /\ merged[k].page = k - 1
            /\ merged[k].output_file = "board-" \o ToString(k - 1) \o ".pdf"
            /\ pgs[k] = merged[k].output_file
            /\ Len(out[1][k]) = Len(Stack(pages[k]))
            /\ \A j \in 1..Len(out[1][k]) :
                /\ out[1][k][j].page = k - 1
                /\ out[1][k][j].layer = Stack(pages[k])[j].suffix

C3_Witness ==
    /\ out # <<>>
    /\ Len(pages) >= 2
    /\ pages[1].layers # pages[2].layers
    /\ \E j \in 1..Len(pages[1].layers) : \E i \in 1..Len(pages[2].layers) :
          pages[1].layers[j].suffix = pages[2].layers[i].suffix

C4_ExpectedFile(e) ==
    "board-" \o e.suffix \o (IF e.color = Black THEN ".pdf" ELSE "-colored.pdf")

\* C4: the file list handed to merge_pdf has one entry per layer of the page,
\* in the configured order, then the frame iff plot_sheet_reference; an entry
\* is the -colored file iff the color is not exactly #000000; merge_pdf stacks
\* the files in list order, the first one at the bottom.
C4_MergeListAndOrder ==
    /\ \A k \in 1..Len(merged) :
          LET st == Stack(pages[merged[k].page + 1]) IN
          /\ Len(merged[k].input_files) = Len(st)
          /\ \A j \in 1..Len(st) : merged[k].input_files[j] = C4_ExpectedFile(st[j])
    /\ (ppc \in {"page", "join", "rmtree"} /\ merged # <<>>) =>
          LET m == merged[Len(merged)]
              page == temp[m.output_file]
          IN  /\ Len(page) = Len(m.input_files)
              /\ \A j \in 1..Len(page) : page[j] = temp[m.input_files[j]][1]

C4_Witness ==
    /\ ppc = "join"
    /\ plot_sheet_reference
    /\ \E k \in 1..Len(merged) :
          /\ Len(merged[k].input_files) = 3
          /\ merged[k].input_files[1] = "board-B_Cu.pdf"
          /\ merged[k].input_files[2] = "board-F_Cu-colored.pdf"
          /\ merged[k].input_files[3] = "board-frame-colored.pdf"

C5_Byte(hex, i) == 16 * hex[i] + hex[i + 1]

\* C5: on a monochrome page the color handed to colorize_pdf is the gray whose
\* three components are the average of the configured red, green and blue; on
\* any other page it is the configured red, green and blue; which of the two
\* depends on the page of the call alone, and a written monochrome page holds
\* grays only.
C5_MonochromeIsGrayPerPage ==
    /\ \A c \in 1..Len(colorized) :
          LET call == colorized[c]
              p == pages[call.page + 1]
              r == C5_Byte(call.hex, 1)
              g == C5_Byte(call.hex, 3)
              b == C5_Byte(call.hex, 5)
          IN  /\ \E j \in 1..Len(Stack(p)) :
                    /\ Stack(p)[j].suffix = call.suffix
                    /\ Stack(p)[j].color = call.hex
              /\ p.monochrome =>
                    /\ call.color[1] = call.color[2]
                    /\ call.color[2] = call.color[3]
                    /\ 3 * call.color[1] = 3 * r + 3 * g + 3 * b
              /\ ~p.monochrome => call.color = <<3 * r, 3 * g, 3 * b>>
    /\ out # <<>> =>
          \A k \in 1..Len(pages) : pages[k].monochrome =>
              \A j \in 1..Len(out[1][k]) :
                  /\ out[1][k][j].color[1] = out[1][k][j].color[2]
                  /\ out[1][k][j].color[2] = out[1][k][j].color[3]

C5_Witness ==
    /\ out # <<>>
    /\ \E c, d \in 1..Len(colorized) :
          /\ colorized[c].page = 0
          /\ pages[1].monochrome
          /\ colorized[c].hex = Copper
          /\ colorized[c].color = <<304, 304, 304>>
          /\ colorized[d].page = 1
          /\ ~pages[2].monochrome
          /\ colorized[d].hex = Copper
          /\ colorized[d].color = <<600, 156, 156>>

\* C6: a page whose scaling is 0 has its layers plotted with autoscale on; a
\* page with another scaling has them plotted with autoscale off and the scale
\* equal to scaling.
C6_ZeroScalingAutoscales ==
    \A i \in 1..Len(plotted) :
        LET d == plotted[i]
            p == pages[d.page + 1]
        IN  d.layer # "frame" =>
              /\ p.scaling = 0 => d.autoScale
              /\ p.scaling # 0 => (~d.autoScale /\ d.scale = p.scaling)

(***************************************************************************)
(* colorize_pdf(folder, in_file, out_file, color), operation by operation  *)
(*                                                                         *)
(* An operation of a content stream is the pair <<operands, operator>>.    *)
(***************************************************************************)
OpChoices ==
    { <<<<0, 0, 0>>, "rg">>,
      <<<<0, 0, 0>>, "RG">>,
      <<<<1, 0, 0>>, "rg">>,
      <<<<0, 0, 0>>, "scn">>,
      <<<<0>>, "g">> }

ColorChoices == { <<600, 156, 156>>, <<304, 304, 304>> }

\* The PDFs of at most np pages and k operations in all
RECURSIVE PdfChoices(_, _)
PdfChoices(np, k) ==
    IF np = 0 THEN {<<>>}
    ELSE {<<>>} \cup
         UNION { { <<pg>> \o rest : rest \in PdfChoices(np - 1, k - Len(pg)) } :
                 pg \in SeqsUpTo(OpChoices, 0, k) }

PrintIdle ==
    /\ p_tree = NotGiven
    /\ pages = <<>>
    /\ plot_sheet_reference = FALSE
    /\ ppc = "idle"
    /\ n = 0
    /\ li = 1
    /\ po = BoardPlotOptions
    /\ plotOpen = FALSE
    /\ tempExists = FALSE
    /\ temp = NoFiles
    /\ filelist = <<>>
    /\ pgs = <<>>
    /\ plotted = <<>>
    /\ colorized = <<>>
    /\ merged = <<>>
    /\ out = <<>>

ColorizeInit ==
    /\ cpc = "open"
    /\ c_source \in PdfChoices(MaxPdfPages, MaxOps)
    /\ c_color \in ColorChoices
    /\ c_page = 0
    /\ c_i = 0
    /\ c_ops = <<>>
    /\ c_output = <<>>
    /\ c_file = <<>>
    /\ PrintIdle
    /\ BlenderIdle

\* Opening in_file and reading it; IOError, ValueError or EOFError end in
\* KiPlotConfigurationError
ColorizeOpen ==
    /\ cpc = "open"
    /\ \E ok \in BOOLEAN :
          cpc' = IF ok THEN "page" ELSE "raised"
    /\ c_output' = <<>>
    /\ c_page' = 0
    /\ UNCHANGED <<c_source, c_color, c_i, c_ops, c_file>>
    /\ UNCHANGED <<pvars, bvars>>

\* for page in range(source.getNumPages()): the content stream of the page
ColorizeGetPage ==
    /\ cpc = "page"
    /\ IF c_page < Len(c_source)
       THEN /\ c_ops' = c_source[c_page + 1]
            /\ c_i' = 0
            /\ cpc' = IF Len(c_source[c_page + 1]) = 0 THEN "addpage" ELSE "operation"
       ELSE /\ cpc' = "write"
            /\ UNCHANGED <<c_ops, c_i>>
    /\ UNCHANGED <<c_source, c_color, c_page, c_output, c_file>>
    /\ UNCHANGED <<pvars, bvars>>

\* the test on an operation: a black rg or RG
IsBlack_rg_only(operands, operator) ==
    operator = "rg" /\ operands = <<0, 0, 0>>

IsBlack(operands, operator) ==
    (operator = "rg" \/ operator = "RG") /\ operands = <<0, 0, 0>>

\* for operands, operator in content.operations: one turn of the loop
ColorizeOperation ==
    /\ cpc = "operation"
    /\ LET operands == c_ops[c_i + 1][1]
           operator == c_ops[c_i + 1][2]
       IN  c_ops' = IF IsBlack(operands, operator)
                    THEN [c_ops EXCEPT ![c_i + 1] =
                            <<<<c_color[1], c_color[2], c_color[3]>>, c_ops[c_i + 1][2]>>]
                    ELSE c_ops
    /\ c_i' = c_i + 1
    /\ cpc' = IF c_i + 1 < Len(c_ops) THEN "operation" ELSE "addpage"
    /\ UNCHANGED <<c_source, c_color, c_page, c_output, c_file>>
    /\ UNCHANGED <<pvars, bvars>>

\* page.__setitem__('/Contents', content); output.addPage(page)
ColorizeAddPage ==
    /\ cpc = "addpage"
    /\ c_output' = Append(c_output, c_ops)
    /\ c_page' = c_page + 1
    /\ cpc' = "page"
    /\ UNCHANGED <<c_source, c_color, c_i, c_ops, c_file>>
    /\ UNCHANGED <<pvars, bvars>>

\* output.write(outputStream), or KiPlotConfigurationError
ColorizeWrite ==
    /\ cpc = "write"
    /\ \E ok \in BOOLEAN :
          IF ok THEN /\ c_file' = <<c_output>>
                     /\ cpc' = "returned"
          ELSE /\ cpc' = "raised"
               /\ UNCHANGED c_file
    /\ UNCHANGED <<c_source, c_color, c_page, c_i, c_ops, c_output>>
    /\ UNCHANGED <<pvars, bvars>>

ColorizeNext ==
    \/ ColorizeOpen
    \/ ColorizeGetPage
    \/ ColorizeOperation
    \/ ColorizeAddPage
    \/ ColorizeWrite

SpecColorize == ColorizeInit /\ [][ColorizeNext]_vars

\* C2: in the file colorize_pdf writes, an rg or RG operation whose operands
\* are [0, 0, 0] has the three components of the color as operands and its
\* operator kept, every other operation is the one of the input, and the
\* pages and the operations of every page are as many and in the same order
\* as in the input.
C2_BlackOperandsReplaced ==
    c_file # <<>> =>
        LET written == c_file[1] IN
        /\ Len(written) = Len(c_source)
        /\ \A p \in 1..Len(c_source) :
            /\ Len(written[p]) = Len(c_source[p])
            /\ \A i \in 1..Len(c_source[p]) :
                 LET op == c_source[p][i] IN
                 IF op[2] \in {"rg", "RG"} /\ op[1] = <<0, 0, 0>>
                 THEN /\ written[p][i][1] = c_color
                      /\ written[p][i][2] = op[2]
                 ELSE written[p][i] = op

C2_Witness ==
    /\ cpc = "returned"
    /\ Len(c_source) = 2
    /\ c_source[1] = << <<<<0, 0, 0>>, "RG">> >>
    /\ c_source[2] = << <<<<1, 0, 0>>, "rg">> >>
    /\ c_file[1][1][1][1] = c_color
    /\ c_file[1][2] = c_source[2]

(***************************************************************************)
(* blender_export: config                                                  *)
(***************************************************************************)
Max(a, b) == IF a >= b THEN a ELSE b

\* get_board_size: (width, height, size) of the bounding box bb
get_board_size(bb) ==
    LET width == 100 * bb[1]
        height == 100 * bb[2]
        size == Max(width, height)
    IN  <<width, height, size>>

\* eval(val, {}, locals) for a val that is one name
Eval(val, locals) == locals[val]

\* BlenderLightOptions.solve, for the member whose value is val
solve(val, _width, _height, _size) ==
    IF ~val.isstr THEN val.num
    ELSE Eval(val.str, [width |-> _width, height |-> _width, size |-> _size])

\* BlenderLightOptions.config
LightConfig(light, bb) ==
    LET sz == get_board_size(bb)
        _width == sz[1]
        _height == sz[2]
        _size == sz[3]
    IN  [name |-> light.name,
         pos_x |-> solve(light.pos_x, _width, _height, _size),
         pos_y |-> solve(light.pos_y, _width, _height, _size),
         pos_z |-> solve(light.pos_z, _width, _height, _size)]

\* super().config: the attributes take what the configuration file gives, and
\* every light and the camera given is configured
Configured(opt, bb) ==
    [kind |-> opt.kind, val |-> [i \in 1..Len(opt.val) |-> LightConfig(opt.val[i], bb)]]

\* Ensure we have a light, adding the default one whatever add_default_light is
EnsureLight_always(light, add_default_light, bb) ==
    IF light.kind = "class"
    THEN LET size == get_board_size(bb)[3]
         IN  << [name |-> "kibot_light", pos_x |-> (-size * 333) \div 100,
                 pos_y |-> (size * 333) \div 100, pos_z |-> size * 5] >>
    ELSE light.val

\* Ensure we have a light: the list self.light becomes
EnsureLight(light, add_default_light, bb) ==
    IF light.kind = "class"
    THEN IF add_default_light
         THEN LET size == get_board_size(bb)[3]
              IN  << [name |-> "kibot_light", pos_x |-> (-size * 333) \div 100,
                      pos_y |-> (size * 333) \div 100, pos_z |-> size * 5] >>
         ELSE <<>>
    ELSE light.val

\* Check light names: light_names is never added to
LightNames(lights) ==
    LET light_names == {}
        named(light) == LET name == IF light.name # "" THEN light.name ELSE "kibot_light"
                     IN  IF name \in light_names THEN name \o "_2" ELSE name
    IN  [i \in 1..Len(lights) |-> [lights[i] EXCEPT !.name = named(lights[i])]]

BlenderConfig ==
    /\ bpc = "new"
    /\ b_pcb3d' = b_tree.pcb3d
    /\ IF b_tree.pcb3d = "" \/ b_tree.outputs.kind = "class"
       THEN /\ bpc' = "rejected"
            /\ b_outputs' = b_tree.outputs
            /\ b_pcb_import' = b_tree.pcb_import
            /\ b_light' = Configured(b_tree.light, b_board)
            /\ b_camera' = Configured(b_tree.camera, b_board)
       ELSE /\ bpc' = "configured"
            /\ b_outputs' = [kind |-> "list", val |-> b_tree.outputs.val]
            /\ b_pcb_import' = IF b_tree.pcb_import.kind = "class"
                               THEN [kind |-> "dict", val |-> <<PCB2BlenderDefaults>>]
                               ELSE b_tree.pcb_import
            /\ b_light' = [kind |-> "list",
                           val |-> LightNames(EnsureLight(Configured(b_tree.light, b_board),
                                                          b_tree.add_default_light, b_board))]
            /\ b_camera' = LET cam == Configured(b_tree.camera, b_board) IN
                           IF cam.kind = "class" THEN [kind |-> "none", val |-> <<>>]
                           ELSE [cam EXCEPT !.val[1].name =
                                    IF @ = "" THEN "kibot_camera" ELSE @]
    /\ UNCHANGED <<b_tree, b_board, b_expand_ext, b_targets, b_source,
                   b_scene_file, b_blender>>
    /\ UNCHANGED <<pvars, cvars>>

(***************************************************************************)
(* blender_export: get_targets and run                                     *)
(***************************************************************************)
output_dir == "out"
command == "blender"
script == "blender_scripts/blender_export.py"
scene_name == "/tmp/scene.json"

\* get_output_targets(self.pcb3d, self._parent): the first target
Pcb3dFile(pcb3d) == output_dir \o "/" \o pcb3d \o ".pcb3d"

\* self._parent.expand_filename(output_dir, o.output) under self._expand_ext
expand_filename(dir, output, ext) == dir \o "/" \o output \o ext

\* get_output_filename with the extension as it was before the call
get_output_filename_stale(o, dir, ext) ==
    LET _expand_ext == IF o.type = "render" THEN "png"
                       ELSE IF o.type = "blender" THEN "blend"
                       ELSE o.type
    IN  [name |-> expand_filename(dir, o.output, ext), ext |-> _expand_ext]

\* get_output_filename(o, output_dir): the name and the new self._expand_ext;
\* ext is self._expand_ext as the call finds it
get_output_filename(o, dir, ext) ==
    LET _expand_ext == IF o.type = "render" THEN "png"
                       ELSE IF o.type = "blender" THEN "blend"
                       ELSE o.type
    IN  [name |-> expand_filename(dir, o.output, _expand_ext), ext |-> _expand_ext]

\* [get_output_filename(o, dir) for o in outs], and self._expand_ext after it
RECURSIVE OutputFilenames(_, _, _)
OutputFilenames(outs, dir, ext) ==
    IF outs = <<>> THEN [names |-> <<>>, ext |-> ext]
    ELSE LET first == get_output_filename(outs[1], dir, ext)
             rest == OutputFilenames(Tail(outs), dir, first.ext)
         IN  [names |-> <<first.name>> \o rest.names, ext |-> rest.ext]

GetTargets ==
    /\ bpc \in {"configured", "ran"}
    /\ b_targets = <<>>
    /\ \E out_dir \in {output_dir, "elsewhere"} :
         LET got == OutputFilenames(b_outputs.val, out_dir, b_expand_ext)
         IN  /\ b_targets' = <<[out_dir |-> out_dir, names |-> got.names]>>
             /\ b_expand_ext' = got.ext
    /\ UNCHANGED <<bpc, b_tree, b_board, b_pcb3d, b_outputs, b_pcb_import,
                   b_light, b_camera, b_source, b_scene_file, b_blender>>
    /\ UNCHANGED <<pvars, cvars>>

\* run up to run_output: the source output is run unless it is done
RunSource ==
    /\ bpc = "configured"
    /\ IF ~b_source.done
       THEN \E made \in BOOLEAN :
               b_source' = [done |-> TRUE, file |-> b_source.file \/ made,
                            runs |-> b_source.runs + 1]
       ELSE UNCHANGED b_source
    /\ bpc' = "isfile"
    /\ UNCHANGED <<b_tree, b_board, b_pcb3d, b_outputs, b_pcb_import, b_light,
                   b_camera, b_expand_ext, b_targets, b_scene_file, b_blender>>
    /\ UNCHANGED <<pvars, cvars>>

\* run going on whether the PCB3D file is there or not
RunIsFile_unchecked ==
    /\ bpc = "isfile"
    /\ bpc' = "scene"
    /\ UNCHANGED <<b_tree, b_board, b_pcb3d, b_outputs, b_pcb_import, b_light,
                   b_camera, b_expand_ext, b_targets, b_source, b_scene_file,
                   b_blender>>
    /\ UNCHANGED <<pvars, cvars>>

\* if not os.path.isfile(pcb3d_file): raise
RunIsFile ==
    /\ bpc = "isfile"
    /\ bpc' = IF b_source.file THEN "scene" ELSE "raised"
    /\ UNCHANGED <<b_tree, b_board, b_pcb3d, b_outputs, b_pcb_import, b_light,
                   b_camera, b_expand_ext, b_targets, b_source, b_scene_file,
                   b_blender>>
    /\ UNCHANGED <<pvars, cvars>>

\* The scene: the keys it has, and its lights and camera
Scene ==
    [keys |-> (IF b_light.val # <<>> THEN {"lights"} ELSE {})
              \cup (IF b_camera.kind # "none" THEN {"camera"} ELSE {})
              \cup {"render", "view"},
     lights |-> [i \in 1..Len(b_light.val) |->
                   [name |-> b_light.val[i].name,
                    position |-> <<b_light.val[i].pos_x, b_light.val[i].pos_y,
                                   b_light.val[i].pos_z>>]],
     camera |-> [i \in 1..Len(b_camera.val) |->
                   [name |-> b_camera.val[i].name,
                    position |-> <<b_camera.val[i].pos_x, b_camera.val[i].pos_y,
                                   b_camera.val[i].pos_z>>]]]

\* Create a JSON with the scene information: written and flushed
RunScene ==
    /\ bpc = "scene"
    /\ b_scene_file' = <<Scene>>
    /\ bpc' = "command"
    /\ UNCHANGED <<b_tree, b_board, b_pcb3d, b_outputs, b_pcb_import, b_light,
                   b_camera, b_expand_ext, b_targets, b_source, b_blender>>
    /\ UNCHANGED <<pvars, cvars>>

\* the import flags with --dont_center given when center is true
ImportFlags_center(pi) ==
    (IF ~pi.components THEN <<"--no_components">> ELSE <<>>)
    \o (IF ~pi.cut_boards THEN <<"--dont_cut_boards">> ELSE <<>>)
    \o (IF pi.texture_dpi # 1016 THEN <<"--texture_dpi", ToString(pi.texture_dpi)>> ELSE <<>>)
    \o (IF pi.center THEN <<"--dont_center">> ELSE <<>>)
    \o (IF ~pi.enhance_materials THEN <<"--dont_enhance_materials">> ELSE <<>>)
    \o (IF ~pi.merge_materials THEN <<"--dont_merge_materials">> ELSE <<>>)
    \o (IF pi.solder_joints # "SMART" THEN <<"--solder_joints", pi.solder_joints>> ELSE <<>>)
    \o (IF ~pi.stack_boards THEN <<"--dont_stack_boards">> ELSE <<>>)

\* the arguments run adds for self.pcb_import
ImportFlags(pi) ==
    (IF ~pi.components THEN <<"--no_components">> ELSE <<>>)
    \o (IF ~pi.cut_boards THEN <<"--dont_cut_boards">> ELSE <<>>)
    \o (IF pi.texture_dpi # 1016 THEN <<"--texture_dpi", ToString(pi.texture_dpi)>> ELSE <<>>)
    \o (IF ~pi.center THEN <<"--dont_center">> ELSE <<>>)
    \o (IF ~pi.enhance_materials THEN <<"--dont_enhance_materials">> ELSE <<>>)
    \o (IF ~pi.merge_materials THEN <<"--dont_merge_materials">> ELSE <<>>)
    \o (IF pi.solder_joints # "SMART" THEN <<"--solder_joints", pi.solder_joints>> ELSE <<>>)
    \o (IF ~pi.stack_boards THEN <<"--dont_stack_boards">> ELSE <<>>)

\* Create the command line
CommandLine(files) ==
    <<command, "-b", "--factory-startup", "-P", script, "--">>
    \o ImportFlags(b_pcb_import.val[1])
    \o <<"--format">>
    \o [i \in 1..Len(b_outputs.val) |-> b_outputs.val[i].type]
    \o <<"--output">>
    \o files
    \o <<"--scene", scene_name>>
    \o <<Pcb3dFile(b_pcb3d)>>

\* Create the command line and execute it; ok is false when Blender fails,
\* which ends run by an exception raised inside the with block
RunCommand ==
    /\ bpc = "command"
    /\ LET got == OutputFilenames(b_outputs.val, output_dir, b_expand_ext)
       IN  /\ \E ok \in BOOLEAN :
                b_blender' = Append(b_blender, [cmd |-> CommandLine(got.names),
                                                scene_file |-> b_scene_file,
                                                source |-> b_source,
                                                ok |-> ok])
           /\ b_expand_ext' = got.ext
    /\ bpc' = "close"
    /\ UNCHANGED <<b_tree, b_board, b_pcb3d, b_outputs, b_pcb_import, b_light,
                   b_camera, b_targets, b_source, b_scene_file>>
    /\ UNCHANGED <<pvars, cvars>>

\* The end of the with block: the temporal file is removed; run returns, or
\* the exception of run_command goes on
RunClose ==
    /\ bpc = "close"
    /\ b_scene_file' = <<>>
    /\ bpc' = IF b_blender[Len(b_blender)].ok THEN "ran" ELSE "failed"
    /\ UNCHANGED <<b_tree, b_board, b_pcb3d, b_outputs, b_pcb_import, b_light,
                   b_camera, b_expand_ext, b_targets, b_source, b_blender>>
    /\ UNCHANGED <<pvars, cvars>>

BlenderNext ==
    \/ BlenderConfig
    \/ GetTargets
    \/ RunSource
    \/ RunIsFile
    \/ RunScene
    \/ RunCommand
    \/ RunClose

\* The options of a configuration file, but for the lights and the camera
BlenderStart ==
    /\ bpc = "new"
    /\ b_pcb3d = ""
    /\ b_outputs = NotGiven
    /\ b_pcb_import = NotGiven
    /\ b_light = NotGiven
    /\ b_camera = NotGiven
    /\ b_expand_ext = ""
    /\ b_targets = <<>>
    /\ b_source \in [done : BOOLEAN, file : BOOLEAN, runs : {0}]
    /\ b_scene_file = <<>>
    /\ b_blender = <<>>
    /\ PrintIdle
    /\ ColorizeIdle

\* The configurations that differ by the lights, the camera and the board
SceneInit ==
    /\ BlenderStart
    /\ b_board \in (1..MaxBoard) \X (1..MaxBoard)
    /\ b_tree \in
         [pcb3d : {"PCB2Blender_2_1"},
          outputs : OneOf([type : {"render"}, output : {"board-3D_blender_top."}]),
          pcb_import : {NotGiven},
          light : {NotGiven} \cup OneOf(LightChoices) \cup ListOf(LightChoices, MaxLights),
          add_default_light : BOOLEAN,
          camera : {NotGiven} \cup OneOf(CameraChoices)]

\* The configurations that differ by the import options and the outputs
CommandInit ==
    /\ BlenderStart
    /\ b_board = <<MaxBoard, 1>>
    /\ b_tree \in
         [pcb3d : {"PCB2Blender_2_1"},
          outputs : OneOf(OutputChoices) \cup ListOf(OutputChoices, MaxOutputs),
          pcb_import : {NotGiven} \cup OneOf(PCB2BlenderChoices),
          light : {NotGiven},
          add_default_light : {TRUE},
          camera : {NotGiven}]

SpecScene == SceneInit /\ [][BlenderNext]_vars

SpecCommand == CommandInit /\ [][BlenderNext]_vars

(***************************************************************************)
(* blender_export: the properties                                          *)
(***************************************************************************)
BlenderConfigured ==
    bpc \in {"configured", "isfile", "scene", "command", "close", "ran", "raised", "failed"}

\* The value a position stands for on a board of w by h mm
C7_Value(val, w, h) ==
    IF ~val.isstr THEN val.num
    ELSE IF val.str = "width" THEN 100 * w
    ELSE IF val.str = "height" THEN 100 * h
    ELSE 100 * Max(w, h)

C7_Solved(given, got) ==
    /\ got.pos_x = C7_Value(given.pos_x, b_board[1], b_board[2])
    /\ got.pos_y = C7_Value(given.pos_y, b_board[1], b_board[2])
    /\ got.pos_z = C7_Value(given.pos_z, b_board[1], b_board[2])

\* C7: in the position of a light or of the camera the names width, height and
\* size evaluate to the width of the PCB, its height and the larger of the
\* two, and a number is that number.
C7_NamesEvaluateToBoardSize ==
    BlenderConfigured =>
        /\ b_tree.light.kind # "class" =>
              \A i \in 1..Len(b_tree.light.val) :
                  C7_Solved(b_tree.light.val[i], b_light.val[i])
        /\ b_tree.camera.kind # "class" =>
              C7_Solved(b_tree.camera.val[1], b_camera.val[1])

\* C8: with no light given, config makes the list of lights the one light
\* kibot_light at (-size*3.33, size*3.33, size*5) when add_default_light is
\* true, and the empty list when it is false, and then the scene given to
\* Blender has no lights key; with a light given no light is added, and one
\* light given as a dict becomes a list of one.
C8_DefaultLight ==
    BlenderConfigured =>
        LET mm == Max(b_board[1], b_board[2]) IN
        /\ b_light.kind = "list"
        /\ (b_tree.light.kind = "class" /\ b_tree.add_default_light) =>
              b_light.val = << [name |-> "kibot_light", pos_x |-> -333 * mm,
                                pos_y |-> 333 * mm, pos_z |-> 500 * mm] >>
        /\ (b_tree.light.kind = "class" /\ ~b_tree.add_default_light) =>
              /\ b_light.val = <<>>
              /\ \A i \in 1..Len(b_blender) :
                    "lights" \notin b_blender[i].scene_file[1].keys
        /\ b_tree.light.kind # "class" =>
              /\ Len(b_light.val) = Len(b_tree.light.val)
              /\ \A i \in 1..Len(b_light.val) :
                    b_tree.light.val[i].name # "" =>
                        b_light.val[i].name = b_tree.light.val[i].name
        /\ b_tree.light.kind = "dict" => Len(b_light.val) = 1

C8_Witness ==
    /\ bpc = "ran"
    /\ b_tree.light.kind = "class"
    /\ b_tree.add_default_light
    /\ b_board = <<1, 2>>
    /\ b_light.val[1].pos_x = -666
    /\ "lights" \in b_blender[1].scene_file[1].keys

C9_Has(cmd, flag) == \E i \in 1..Len(cmd) : cmd[i] = flag

C9_HasWith(cmd, flag, value) ==
    \E i \in 1..(Len(cmd) - 1) : cmd[i] = flag /\ cmd[i + 1] = value

\* C9: the command line of Blender has an import flag iff the option of
\* pcb_import it stands for is not at its default, --texture_dpi and
\* --solder_joints followed by the value; with every option at its default
\* the arguments of the script start with --format; the PCB3D file is the
\* last argument.
C9_ImportFlags ==
    \A k \in 1..Len(b_blender) :
        LET cmd == b_blender[k].cmd
            pi == b_pcb_import.val[1]
        IN  /\ C9_Has(cmd, "--no_components") <=> ~pi.components
            /\ C9_Has(cmd, "--dont_cut_boards") <=> ~pi.cut_boards
            /\ C9_Has(cmd, "--texture_dpi") <=> pi.texture_dpi # 1016
            /\ pi.texture_dpi # 1016 =>
                  C9_HasWith(cmd, "--texture_dpi", ToString(pi.texture_dpi))
            /\ C9_Has(cmd, "--dont_center") <=> ~pi.center
            /\ C9_Has(cmd, "--dont_enhance_materials") <=> ~pi.enhance_materials
            /\ C9_Has(cmd, "--dont_merge_materials") <=> ~pi.merge_materials
            /\ C9_Has(cmd, "--solder_joints") <=> pi.solder_joints # "SMART"
            /\ pi.solder_joints # "SMART" =>
                  C9_HasWith(cmd, "--solder_joints", pi.solder_joints)
            /\ C9_Has(cmd, "--dont_stack_boards") <=> ~pi.stack_boards
            /\ pi = PCB2BlenderDefaults => (cmd[6] = "--" /\ cmd[7] = "--format")
            /\ b_tree.pcb_import.kind = "class" => pi = PCB2BlenderDefaults
            /\ b_tree.pcb_import.kind # "class" => pi = b_tree.pcb_import.val[1]
            /\ cmd[Len(cmd)] = "out/PCB2Blender_2_1.pcb3d"

C9_Witness ==
    /\ bpc = "ran"
    /\ b_tree.pcb_import.kind = "dict"
    /\ b_pcb_import.val[1] = [PCB2BlenderDefaults EXCEPT !.texture_dpi = 508,
                                                         !.solder_joints = "ALL",
                                                         !.center = FALSE]
    /\ C9_HasWith(b_blender[1].cmd, "--texture_dpi", "508")
    /\ ~C9_Has(b_blender[1].cmd, "--no_components")

C10_Index(cmd, flag) == CHOOSE i \in 1..Len(cmd) : cmd[i] = flag

C10_Ext(type) ==
    IF type = "render" THEN "png" ELSE IF type = "blender" THEN "blend" ELSE type

\* C10: the arguments after --format and the ones after --output are as many
\* as the outputs and in their order; the i-th file name has the extension of
\* the i-th type (png for render, blend for blender, else the type); and
\* get_targets, for the same directory, returns these file names in this order.
C10_FormatsPairedWithFiles ==
    \A k \in 1..Len(b_blender) :
        LET cmd == b_blender[k].cmd
            f == C10_Index(cmd, "--format")
            o == C10_Index(cmd, "--output")
            s == C10_Index(cmd, "--scene")
            outs == b_outputs.val
        IN  /\ o - f - 1 = Len(outs)
            /\ s - o - 1 = Len(outs)
            /\ \A i \in 1..Len(outs) :
                  /\ cmd[f + i] = outs[i].type
                  /\ cmd[o + i] = "out/" \o outs[i].output \o C10_Ext(outs[i].type)
            /\ (b_targets # <<>> /\ b_targets[1].out_dir = "out") =>
                  /\ Len(b_targets[1].names) = Len(outs)
                  /\ \A i \in 1..Len(outs) : b_targets[1].names[i] = cmd[o + i]

C10_Witness ==
    /\ bpc = "ran"
    /\ b_targets # <<>>
    /\ b_targets[1].out_dir = "out"
    /\ Len(b_outputs.val) = 2
    /\ b_outputs.val[1].type = "stl"
    /\ b_outputs.val[2].type = "render"
    /\ b_targets[1].names = <<"out/board-3D_blender_top.stl", "out/board-3D_blender_top.png">>

(***************************************************************************)
(* config of both outputs, the mandatory options given or not              *)
(***************************************************************************)
\* A page of one layer, or one whose `layers` option was not given
ConfigPageChoices ==
    [ layers : {NotGiven} \cup OneOf(LayerChoices),
      monochrome : {FALSE},
      scaling : {2},
      sheet_reference_color : {<<>>} ]

\* pcb_print with or without `pages`, the pages with or without `layers`
PrintConfigInit ==
    /\ plot_sheet_reference \in BOOLEAN
    /\ p_tree \in {NotGiven} \cup ListOf(ConfigPageChoices, MaxConfigPages)
    /\ pages = <<>>
    /\ ppc = "new"
    /\ n = 0
    /\ li = 1
    /\ po = BoardPlotOptions
    /\ plotOpen = FALSE
    /\ tempExists = FALSE
    /\ temp = NoFiles
    /\ filelist = <<>>
    /\ pgs = <<>>
    /\ plotted = <<>>
    /\ colorized = <<>>
    /\ merged = <<>>
    /\ out = <<>>
    /\ ColorizeIdle
    /\ BlenderIdle

\* blender_export with or without a name in `pcb3d`, with or without `outputs`
BlenderConfigInit ==
    /\ BlenderStart
    /\ b_board = <<1, 1>>
    /\ b_tree \in
         [pcb3d : {"", "PCB2Blender_2_1"},
          outputs : {NotGiven} \cup OneOf(OutputChoices) \cup ListOf(OutputChoices, MaxOutputs),
          pcb_import : {NotGiven},
          light : {NotGiven},
          add_default_light : {TRUE},
          camera : {NotGiven}]

ConfigInit == PrintConfigInit \/ BlenderConfigInit

ConfigNext == PrintNext \/ BlenderNext

SpecConfig == ConfigInit /\ [][ConfigNext]_vars

C11_PrintLacks ==
    \/ p_tree.kind = "class"
    \/ \E i \in 1..Len(p_tree.val) : p_tree.val[i].layers.kind = "class"

C11_BlenderLacks ==
    \/ b_tree.pcb3d = ""
    \/ b_tree.outputs.kind = "class"

\* C11: once config has run, the configuration is rejected iff a mandatory
\* option is lacking (pcb_print: no `pages`, or a page with no `layers`;
\* blender_export: an empty `pcb3d`, or no `outputs`), and a rejected
\* configuration has plotted nothing, made no temporal directory, written no
\* scene file and invoked no Blender.
C11_MissingOptionRejected ==
    /\ ppc \notin {"idle", "new"} => (ppc = "rejected" <=> C11_PrintLacks)
    /\ ppc = "rejected" =>
          /\ plotted = <<>> /\ ~plotOpen /\ ~tempExists
          /\ colorized = <<>> /\ merged = <<>> /\ out = <<>>
    /\ bpc \notin {"idle", "new"} => (bpc = "rejected" <=> C11_BlenderLacks)
    /\ bpc = "rejected" =>
          /\ b_blender = <<>> /\ b_scene_file = <<>> /\ b_targets = <<>>

C11_Witness ==
    /\ ppc = "rejected"
    /\ p_tree.kind = "list"
    /\ Len(p_tree.val) = 2
    /\ p_tree.val[1].layers.kind = "dict"
    /\ p_tree.val[2].layers.kind = "class"
    /\ plotted = <<>>

(***************************************************************************)
(* pcb_print: the order and the options of the plots                       *)
(***************************************************************************)
\* The layers plotted for the page of index k, in the order of the calls
C12_PlottedFor(k) ==
    LET calls == SelectSeq(plotted, LAMBDA d : d.page = k)
    IN  [i \in 1..Len(calls) |-> calls[i].layer]

\* The plots the page of index k asks for: its layers, then the frame
C12_Asked(k) ==
    [j \in 1..Len(pages[k + 1].layers) |-> pages[k + 1].layers[j].suffix]
    \o (IF plot_sheet_reference THEN <<"frame">> ELSE <<>>)

\* The plots of the page of index k are over
C12_PlotsOver(k) ==
    \/ k < n
    \/ k = n /\ ppc \in {"close", "colorize", "colorframe", "merge", "raised"}

\* C12: the plots made while page k is processed are the layers of page k,
\* one plot per layer in the configured order, then the frame iff
\* plot_sheet_reference; a layer is plotted with the frame reference off and
\* the scale of its page, whatever was plotted before, and the frame with the
\* frame reference on and the scale 1; no plot is open while the files of the
\* page are colorized or merged.
C12_PlotOrderAndOptions ==
    /\ \A i \in 1..Len(plotted) :
          LET d == plotted[i] IN
          /\ d.page <= n
          /\ i > 1 => plotted[i - 1].page <= d.page
          /\ d.layer # "frame" => (~d.frameRef /\ d.scale = pages[d.page + 1].scaling)
          /\ d.layer = "frame" => (plot_sheet_reference /\ d.frameRef /\ d.scale = 1)
    /\ \A k \in 0..(Len(pages) - 1) :
          C12_PlotsOver(k) => C12_PlottedFor(k) = C12_Asked(k)
    /\ ppc \in {"colorize", "colorframe", "merge"} => ~plotOpen

C12_Witness ==
    /\ ppc = "done"
    /\ plot_sheet_reference
    /\ Len(pages) = 2
    /\ pages[2].scaling = 2
    /\ \E i, j \in 1..Len(plotted) :
          /\ i < j
          /\ plotted[i].page = 0 /\ plotted[i].layer = "frame" /\ plotted[i].frameRef
          /\ plotted[j].page = 1 /\ plotted[j].layer = "F_Cu"
          /\ ~plotted[j].frameRef /\ plotted[j].scale = 2

(***************************************************************************)
(* blender_export: run, the source of the PCB3D file and the scene file    *)
(***************************************************************************)
\* The argument that follows --scene
C13_SceneArg(cmd) == cmd[(CHOOSE i \in 1..Len(cmd) : cmd[i] = "--scene") + 1]

C13_Invoked ==
    /\ Len(b_blender) <= 1
    /\ b_source.runs <= 1
    /\ \A k \in 1..Len(b_blender) :
          LET e == b_blender[k] IN
          /\ e.source.done
          /\ e.source.file
          /\ e.scene_file = <<Scene>>
          /\ C13_SceneArg(e.cmd) = scene_name
          /\ e.cmd[Len(e.cmd)] = Pcb3dFile(b_pcb3d)
    /\ bpc = "raised" => (b_blender = <<>> /\ b_source.done /\ ~b_source.file)
    /\ bpc \in {"scene", "command", "close", "ran", "failed"} =>
          (b_source.done /\ b_source.file)
    /\ bpc \in {"ran", "failed"} => Len(b_blender) = 1
    /\ bpc \in {"ran", "failed", "raised"} => b_scene_file = <<>>

C13_Step ==
    /\ (bpc = "configured" /\ bpc' = "isfile") =>
          /\ b_source.done => b_source' = b_source
          /\ ~b_source.done => (b_source'.done /\ b_source'.runs = b_source.runs + 1)
    /\ b_source' # b_source => (bpc = "configured" /\ b_blender = <<>>)
    /\ b_blender' # b_blender =>
          (bpc = "command" /\ b_source.file /\ b_scene_file = <<Scene>>)

\* C13: run runs the source output iff it is not done, once and before
\* anything else; without the PCB3D file after that, run raises and Blender is
\* not invoked; Blender is invoked at most once, with the PCB3D file there,
\* the scene file written in full and its name after --scene; the scene file
\* is gone when run has ended, by a return or by an exception.
C13_BlenderAfterSource == []C13_Invoked /\ [][C13_Step]_vars

C13_Witness ==
    /\ bpc = "ran"
    /\ b_source.runs = 1
    /\ Len(b_blender) = 1
    /\ b_blender[1].source.runs = 1
    /\ b_blender[1].source.file
    /\ "lights" \in b_blender[1].scene_file[1].keys
    /\ Len(b_blender[1].scene_file[1].lights) = 2
    /\ b_scene_file = <<>>

====
